---- MODULE Spec2Model ----
(***************************************************************************)
(* Model of src/build.js of snaps-cli: the bundle() entry point, its write *)
(* stream and error plumbing, and the postProcess text pipeline.           *)
(*                                                                         *)
(* Texts are sequences of one-character strings, so that every rewrite of  *)
(* postProcess is computed character by character as the JavaScript        *)
(* String.prototype methods and regular expressions compute it.            *)
(***************************************************************************)
EXTENDS Integers, Sequences, FiniteSets, TLC

(***************************************************************************)
(* Bounds of the model.                                                    *)
(***************************************************************************)
\* bundle() invocations per behaviour (the first build plus rebuilds)
MaxBuilds == 2
\* length of the texts over the rule-4 alphabet
MaxRule4Len == 6
\* number of fragments concatenated into an input of the wrap step
MaxWrapFrags == 4
\* number of fragments concatenated into an input of the stdlib patch
MaxStdlibFrags == 3
\* number of fragments concatenated into an input of the whole pipeline
MaxPipeFrags == 3

(***************************************************************************)
(* Characters and literal texts.                                           *)
(***************************************************************************)
\* \w of the regular expressions: [A-Za-z0-9_]
WordChars ==
  {"a","b","c","d","e","f","g","h","i","j","k","l","m","n","o","p","q","r",
   "s","t","u","v","w","x","y","z",
   "A","B","C","D","E","F","G","H","I","J","K","L","M","N","O","P","Q","R",
   "S","T","U","V","W","X","Y","Z",
   "0","1","2","3","4","5","6","7","8","9","_"}

\* Characters with no TLA+ string escape are written as their code point: the
\* one-character text "\u000b" is the sequence <<"U+000B">>.

\* line terminators: not matched by '.', delimit lines for ^ and $ under /m
LineTerminators == {"\n", "\r", "U+2028", "U+2029"}

\* white space removed by String.prototype.trim: WhiteSpace and LineTerminator
\* of ECMAScript (tab, VT, FF, the space separators Zs, NBSP, BOM)
WhiteSpace ==
  {" ", "\t", "\f", "U+000B", "U+00A0", "U+FEFF", "U+1680",
   "U+2000", "U+2001", "U+2002", "U+2003", "U+2004", "U+2005", "U+2006",
   "U+2007", "U+2008", "U+2009", "U+200A", "U+202F", "U+205F", "U+3000"}
    \cup LineTerminators

ImportPat       == <<".","i","m","p","o","r","t","(">>
ImportRepl      == <<"[","\"","i","m","p","o","r","t","\"","]","(">>
EvalWord        == <<"e","v","a","l">>
IndirectOpen    == <<"(","1",","," ">>
HtmlOpen        == <<"<","!","-","-">>
HtmlOpenRepl    == <<"<"," ","!","-","-">>
HtmlClose       == <<"-","-",">">>
HtmlCloseRepl   == <<"-","-"," ",">">>
BufferLine      == <<"(","f","u","n","c","t","i","o","n"," ","(","B","u","f","f","e","r",")","{">>
BufferLineRepl  == <<"(","f","u","n","c","t","i","o","n"," ","(",")","{">>
ArrowPrefix     == <<"(",")"," ","=",">"," ">>
ArrowOpen       == <<"(",")"," ","=",">"," ","(","\n">>
ArrowClose      == <<"\n",")">>
RegenWord       == <<"r","e","g","e","n","e","r","a","t","o","r","R","u","n","t","i","m","e">>
RegenDecl       == <<"v","a","r"," ">> \o RegenWord \o <<";","\n">>
SelfWord        == <<"s","e","l","f">>
WindowWord      == <<"w","i","n","d","o","w">>
StdlibWord      == <<"s","t","d","l","i","b">>
ResultCb        == <<"r","e","s","u","l","t","C","b","(","r","e","s","u","l","t",")">>
SetImmediatePat == <<"s","e","t","I","m","m","e","d","i","a","t","e","(","(",")"," ","=",">"," ">>
                     \o ResultCb \o <<")">>

(***************************************************************************)
(* String primitives.                                                      *)
(***************************************************************************)
\* pattern p occurs in s starting at index i (1-based)
OccursAt(s, p, i) ==
  /\ i >= 1
  /\ i + Len(p) - 1 <= Len(s)
  /\ \A k \in 1..Len(p) : s[i + k - 1] = p[k]

\* String.prototype.includes / indexOf(p) !== -1
Includes(s, p) == \E i \in 1..Len(s) : OccursAt(s, p, i)

startsWith(s, p) == OccursAt(s, p, 1)

endsWith(s, p) == Len(p) <= Len(s) /\ OccursAt(s, p, Len(s) - Len(p) + 1)

\* s.replace(/p/g, r) for a literal pattern p: leftmost non-overlapping matches
RECURSIVE ReplaceAllFrom(_, _, _, _)
ReplaceAllFrom(s, p, r, i) ==
  IF i > Len(s) THEN <<>>
  ELSE IF OccursAt(s, p, i) THEN r \o ReplaceAllFrom(s, p, r, i + Len(p))
  ELSE <<s[i]>> \o ReplaceAllFrom(s, p, r, i + 1)

ReplaceAll(s, p, r) == ReplaceAllFrom(s, p, r, 1)

\* s.replace(p, r) for a string pattern p: the first occurrence only
ReplaceFirst(s, p, r) ==
  IF Includes(s, p)
  THEN LET i == CHOOSE j \in 1..Len(s) :
                  OccursAt(s, p, j) /\ \A k \in 1..(j - 1) : ~OccursAt(s, p, k)
       IN SubSeq(s, 1, i - 1) \o r \o SubSeq(s, i + Len(p), Len(s))
  ELSE s

\* String.prototype.trim
RECURSIVE TrimStart(_)
TrimStart(s) ==
  IF s # <<>> /\ Head(s) \in WhiteSpace THEN TrimStart(Tail(s)) ELSE s

RECURSIVE TrimEnd(_)
TrimEnd(s) ==
  IF s # <<>> /\ s[Len(s)] \in WhiteSpace
  THEN TrimEnd(SubSeq(s, 1, Len(s) - 1)) ELSE s

trim(s) == TrimEnd(TrimStart(s))

(***************************************************************************)
(* stripComments: the @nodefactory/strip-comments collaborator.  Line      *)
(* comments and block comments are deleted; quoted string literals are     *)
(* copied unchanged.  The newline that ends a line comment is kept.        *)
(***************************************************************************)
RECURSIVE StripFrom(_, _, _)
StripFrom(s, i, mode) ==
  IF i > Len(s) THEN <<>>
  ELSE
    CASE mode = "code" ->
           IF OccursAt(s, <<"/","/">>, i) THEN StripFrom(s, i + 2, "line")
           ELSE IF OccursAt(s, <<"/","*">>, i) THEN StripFrom(s, i + 2, "block")
           ELSE IF s[i] = "\"" THEN <<s[i]>> \o StripFrom(s, i + 1, "dq")
           ELSE IF s[i] = "'" THEN <<s[i]>> \o StripFrom(s, i + 1, "sq")
           ELSE <<s[i]>> \o StripFrom(s, i + 1, "code")
      [] mode = "line" ->
           IF s[i] \in LineTerminators THEN <<s[i]>> \o StripFrom(s, i + 1, "code")
           ELSE StripFrom(s, i + 1, "line")
      [] mode = "block" ->
           IF OccursAt(s, <<"*","/">>, i) THEN StripFrom(s, i + 2, "code")
           ELSE StripFrom(s, i + 1, "block")
      [] mode = "dq" ->
           <<s[i]>> \o StripFrom(s, i + 1, IF s[i] = "\"" THEN "code" ELSE "dq")
      [] mode = "sq" ->
           <<s[i]>> \o StripFrom(s, i + 1, IF s[i] = "'" THEN "code" ELSE "sq")

stripComments(s) == StripFrom(s, 1, "code")

(***************************************************************************)
(* Regular-expression helpers.                                             *)
(***************************************************************************)
IsWordAt(s, i) == i >= 1 /\ i <= Len(s) /\ s[i] \in WordChars

\* \b between index i-1 and index i
WordBoundary(s, i) == IsWordAt(s, i - 1) # IsWordAt(s, i)

\* the first index >= i that holds no word character: end of a greedy [\w\d]*
RECURSIVE WordRunEnd(_, _)
WordRunEnd(s, i) == IF IsWordAt(s, i) THEN WordRunEnd(s, i + 1) ELSE i

\* index of the first ')' at or after i, 0 when there is none: [^)]*\)
RECURSIVE FirstClose(_, _)
FirstClose(s, i) ==
  IF i > Len(s) THEN 0
  ELSE IF s[i] = ")" THEN i
  ELSE FirstClose(s, i + 1)

\* one repetition of (?:\b[\w\d]*[\]\)]?\.) from index p: the index after the
\* dot, or 0 when it does not match.  The word run must be maximal and the
\* bracket taken when present, since what follows either must be the dot.
GroupEnd(s, p) ==
  IF ~WordBoundary(s, p) THEN 0
  ELSE LET q  == WordRunEnd(s, p)
           q2 == IF q <= Len(s) /\ s[q] \in {"]", ")"} THEN q + 1 ELSE q
       IN IF q2 <= Len(s) /\ s[q2] = "." THEN q2 + 1 ELSE 0

\* (?:...)+ from index p, p being the index after at least one repetition:
\* the index after the last repetition
RECURSIVE ChainEnd(_, _)
ChainEnd(s, p) ==
  LET q == GroupEnd(s, p) IN IF q = 0 THEN p ELSE ChainEnd(s, q)

\* eval(\([^)]*\)) at index e: the index of the closing ')', 0 when no match
EvalCallEnd(s, e) ==
  IF OccursAt(s, EvalWord \o <<"(">>, e) THEN FirstClose(s, e + 5) ELSE 0

\* /((?:\b[\w\d]*[\]\)]?\.)+eval)(\([^)]*\))/ at index i: the index of the
\* closing ')' of the match, 0 when there is no match starting at i
ChainEvalEnd(s, i) ==
  LET g == GroupEnd(s, i)
  IN IF g = 0 THEN 0 ELSE EvalCallEnd(s, ChainEnd(s, g))

\* /(\b)(eval)(\([^)]*\))/ at index i
BareEvalEnd(s, i) ==
  IF WordBoundary(s, i) THEN EvalCallEnd(s, i) ELSE 0

(***************************************************************************)
(* The rewrites of postProcess, in source order.                           *)
(***************************************************************************)
\* .import( => ["import"](
Rule1(s) == ReplaceAll(s, ImportPat, ImportRepl)

\* stuff.eval(otherStuff) => (1, stuff.eval)(otherStuff)
RECURSIVE Rule2From(_, _)
Rule2From(s, i) ==
  IF i > Len(s) THEN <<>>
  ELSE LET c == ChainEvalEnd(s, i)
       IN IF c = 0 THEN <<s[i]>> \o Rule2From(s, i + 1)
          ELSE LET e == ChainEnd(s, GroupEnd(s, i)) \* where "eval" starts
               IN IndirectOpen \o SubSeq(s, i, e + 3) \o <<")">>
                    \o SubSeq(s, e + 4, c) \o Rule2From(s, c + 1)

Rule2(s) == Rule2From(s, 1)

\* eval(stuff) => (1, eval)(stuff)
RECURSIVE Rule3From(_, _)
Rule3From(s, i) ==
  IF i > Len(s) THEN <<>>
  ELSE LET c == BareEvalEnd(s, i)
       IN IF c = 0 THEN <<s[i]>> \o Rule3From(s, i + 1)
          ELSE IndirectOpen \o EvalWord \o <<")">>
                 \o SubSeq(s, i + 4, c) \o Rule3From(s, c + 1)

Rule3(s) == Rule3From(s, 1)

\* rule 4 with the space put after '<!--' instead of inside it
Rule4SpaceAppended(s) ==
  ReplaceAll(ReplaceAll(s, HtmlOpen, HtmlOpen \o <<" ">>), HtmlClose, HtmlCloseRepl)

\* '<!--' => '< !--' && '-->' => '-- >'
Rule4(s) == ReplaceAll(ReplaceAll(s, HtmlOpen, HtmlOpenRepl), HtmlClose, HtmlCloseRepl)

\* /^\(function \(Buffer\)\{$/gm => '(function (){'
BufferLineAt(s, i) ==
  /\ i = 1 \/ s[i - 1] \in LineTerminators
  /\ OccursAt(s, BufferLine, i)
  /\ i + Len(BufferLine) = Len(s) + 1 \/ s[i + Len(BufferLine)] \in LineTerminators

RECURSIVE Rule5From(_, _)
Rule5From(s, i) ==
  IF i > Len(s) THEN <<>>
  ELSE IF BufferLineAt(s, i)
       THEN BufferLineRepl \o Rule5From(s, i + Len(BufferLine))
       ELSE <<s[i]>> \o Rule5From(s, i + 1)

Rule5(s) == Rule5From(s, 1)

\* the substitutions that run before the emptiness test
Substitute(s) == Rule5(Rule4(Rule3(Rule2(Rule1(s)))))

\* the wrap with the parenthesis test made before the ';' is dropped
WrapTestsBeforeSlice(t) ==
  LET u == IF endsWith(t, <<";">>) THEN SubSeq(t, 1, Len(t) - 1) ELSE t
  IN IF startsWith(t, <<"(">>) /\ endsWith(t, <<")">>)
     THEN ArrowPrefix \o u
     ELSE ArrowOpen \o u \o ArrowClose

\* wrap bundle contents in anonymous function
Wrap(t) ==
  LET u == IF endsWith(t, <<";">>) THEN SubSeq(t, 1, Len(t) - 1) ELSE t
  IN IF startsWith(u, <<"(">>) /\ endsWith(u, <<")">>)
     THEN ArrowPrefix \o u
     ELSE ArrowOpen \o u \o ArrowClose

\* Babel regeneratorRuntime
RegenPatch(s) == IF Includes(s, RegenWord) THEN RegenDecl \o s ELSE s

\* replace(/self/g, "window")
SelfPatch(s) == ReplaceAll(s, SelfWord, WindowWord)

\* replace(/stdlib./g, ''): the dot is the regular-expression wildcard
StdlibAt(s, i) ==
  /\ OccursAt(s, StdlibWord, i)
  /\ i + Len(StdlibWord) <= Len(s)
  /\ s[i + Len(StdlibWord)] \notin LineTerminators

RECURSIVE StdlibFrom(_, _)
StdlibFrom(s, i) ==
  IF i > Len(s) THEN <<>>
  ELSE IF StdlibAt(s, i) THEN StdlibFrom(s, i + Len(StdlibWord) + 1)
  ELSE <<s[i]>> \o StdlibFrom(s, i + 1)

StdlibPatch(s) == StdlibFrom(s, 1)

\* replace("setImmediate(() => resultCb(result))", "resultCb(result)")
SetImmediatePatch(s) == ReplaceFirst(s, SetImmediatePat, ResultCb)

\* the patches that run after the wrap
Patch(s) == SetImmediatePatch(StdlibPatch(SelfPatch(RegenPatch(s))))

(***************************************************************************)
(* JavaScript values handed to and returned by postProcess.                *)
(***************************************************************************)
Null        == [type |-> "null",   chars |-> <<>>]
Thrown      == [type |-> "throw",  chars |-> <<>>]
Str(s)      == [type |-> "string", chars |-> s]

postProcess(bundleString, options) ==
  IF bundleString.type # "string" THEN Null
  ELSE LET t0 == trim(bundleString.chars)
           t1 == IF options.stripComments THEN stripComments(t0) ELSE t0
           t2 == Substitute(t1)
       IN IF Len(t2) = 0 THEN Thrown
          ELSE Str(Patch(Wrap(t2)))

(***************************************************************************)
(* Inputs.                                                                 *)
(***************************************************************************)
\* every concatenation of at most n members of the set F of texts
RECURSIVE Concats(_, _)
Concats(F, n) ==
  IF n = 0 THEN {<<>>}
  ELSE LET S == Concats(F, n - 1) IN S \cup {f \o t : f \in F, t \in S}

Undefined == [type |-> "undefined", chars |-> <<>>]

\* texts the bundler hands to its callback (bundle.toString()): white space
\* only, and a comment only, which is a bundle unless comments are stripped
BundleTexts ==
  { <<"U+000B","\n">>,
    <<"/","/","c">> }

\* what browserify's bundle() passes to its callback: (err, bundle)
ProducerResults ==
  {[err |-> TRUE, bundle |-> Undefined]}
    \cup {[err |-> FALSE, bundle |-> Str(t)] : t \in BundleTexts}

NoResult == [err |-> FALSE, bundle |-> Undefined]

\* the options bundle() hands on: { stripComments: argv.stripComments }
Options == {[stripComments |-> b] : b \in BOOLEAN}

\* texts over the characters of rule 4
Rule4Texts == Concats({<<"<">>, <<"!">>, <<"-">>, <<">">>, <<" ">>}, MaxRule4Len)

\* non-empty texts reaching the wrap step
WrapFrags ==
  { <<"(">>, <<")">>, <<";">>, <<"a",",","b">>,
    <<"d","o","S","t","u","f","f","(",")">> }
WrapTexts == Concats(WrapFrags, MaxWrapFrags) \ {<<>>}

\* texts reaching the stdlib patch
StdlibFrags == { StdlibWord, <<".">>, <<"X">>, <<"\n">>, <<"s">> }
StdlibTexts == Concats(StdlibFrags, MaxStdlibFrags)

\* bundle texts for the whole pipeline
PipeFrags ==
  { <<"-">>, <<"-",">">>, <<"<","!","-">>, StdlibWord \o <<".">>,
    SelfWord, <<"a">>, <<";">> }
PipeTexts == Concats(PipeFrags, MaxPipeFrags)
(***************************************************************************)
(* State.  bundle() can be called again before an earlier call has         *)
(* settled, so the state of a call is kept per invocation, numbered        *)
(* 1..MaxBuilds in call order; the file at dest, the log and the process   *)
(* are shared.                                                             *)
(***************************************************************************)
VARIABLES
  isWatching,  \* snaps.isWatching
  builds,      \* number of bundle() invocations so far
  pc,          \* pc[i]: position of invocation i
  argv,        \* argv of the process, handed to every invocation
  produced,    \* produced[i]: (err, bundle) received by its bundler callback
  stream,      \* stream[i]: state of its bundleStream as JavaScript sees it
  pool,        \* pool[i]: the file operation of its stream in the thread pool
  endCalls,    \* endCalls[i]: calls of bundleStream.end
  endData,     \* endData[i]: the chunk passed to bundleStream.end
  cbDone,      \* cbDone[i]: the callback passed to bundleStream.end was called
  endErr,      \* endErr[i]: that callback is to be called with an error
  promise,     \* promise[i]: the promise returned by invocation i
  queue,       \* the promise jobs waiting to run, as invocation numbers, oldest first
  fileExists,  \* something exists at dest
  fileIsDir,   \* dest is a directory
  unlinkDenied,\* fs.unlinkSync(dest) fails: dest or its directory cannot be changed
  linked,      \* linked[i]: the file stream i has open is the one at dest
  fileText,    \* the contents of the file at dest, Null without a file to read
  alive,       \* the process is running
  exitCode,    \* exit code once it is not
  uncaught,    \* the process died of an uncaught exception
  log,         \* messages handed to logError and console.log, oldest first
  fpc,         \* position of a run of a single rewrite
  fin,         \* its input text
  fopt,        \* its options
  fmid,        \* the result of its first application
  fout         \* its latest result

Builds == 1..MaxBuilds

procVars   == <<isWatching, builds, pc, argv, produced, promise, queue>>
streamVars == <<stream, pool, endCalls, endData, cbDone, endErr>>
fileVars   == <<fileExists, fileIsDir, unlinkDenied, linked, fileText>>
exitVars   == <<alive, exitCode, uncaught>>
funVars    == <<fpc, fin, fopt, fmid, fout>>
vars       == <<procVars, streamVars, fileVars, exitVars, log, funVars>>

BuildErrorPrefix == <<"B","u","i","l","d"," ","e","r","r","o","r",":">>
WriteErrorPrefix == <<"W","r","i","t","e"," ","e","r","r","o","r",":">>
BuildSuccess     == <<"B","u","i","l","d"," ","s","u","c","c","e","s","s",":">>
OldText          == <<"o","l","d">>
Dest             == "dest"
NoPath           == "undefined"

FunIdle ==
  /\ fpc = "idle" /\ fin = <<>> /\ fopt = [stripComments |-> FALSE]
  /\ fmid = Null /\ fout = Null

\* what bundle() can find at dest, as <<fileExists, fileIsDir, unlinkDenied>>:
\* nothing, nothing in a directory where files can be created but not
\* unlinked (append-only), a file of an earlier build, such a file that
\* cannot be unlinked (immutable, or in an immutable directory), a directory
DestKinds ==
  { <<FALSE, FALSE, FALSE>>, <<FALSE, FALSE, TRUE>>, <<TRUE, FALSE, FALSE>>,
    <<TRUE, FALSE, TRUE>>, <<TRUE, TRUE, TRUE>> }

\* no invocation has been made
NoCalls ==
  /\ builds = 0
  /\ pc = [i \in Builds |-> "idle"]
  /\ produced = [i \in Builds |-> NoResult]
  /\ stream = [i \in Builds |-> "none"]
  /\ pool = [i \in Builds |-> "idle"]
  /\ endCalls = [i \in Builds |-> 0]
  /\ endData = [i \in Builds |-> Null]
  /\ cbDone = [i \in Builds |-> FALSE]
  /\ endErr = [i \in Builds |-> FALSE]
  /\ promise = [i \in Builds |-> "none"]
  /\ queue = <<>>
  /\ alive = TRUE
  /\ exitCode = 0
  /\ uncaught = FALSE
  /\ log = <<>>

Init ==
  /\ isWatching \in BOOLEAN
  /\ argv \in Options
  /\ NoCalls
  /\ \E k \in DestKinds :
       fileExists = k[1] /\ fileIsDir = k[2] /\ unlinkDenied = k[3]
  /\ linked = [i \in Builds |-> FALSE]
  /\ fileText = IF fileExists /\ ~fileIsDir THEN Str(OldText) ELSE Null
  /\ FunIdle

\* a promise job of some invocation is queued: the queue is emptied before
\* the event loop delivers its next event
ReactionQueued == queue # <<>>

\* a turn of the event loop: the next event can be delivered
EventLoopTurn == alive /\ ~ReactionQueued

\* stream.end of invocation i completes without file I/O (no chunk on an open
\* stream, or a stream that had failed when end was called): Writable calls
\* back through
\* process.nextTick.  That callback needs no event: it runs before the
\* queued promise jobs when the bundler callback came from an event or a
\* nextTick callback, after them when it came from a promise job
NextTickDue(i) ==
  /\ alive
  /\ endCalls[i] = 1
  /\ ~cbDone[i]
  /\ \/ endErr[i]
     \/ stream[i] = "open" /\ endData[i].type # "string"

(***************************************************************************)
(* writeError(prefix, msg, err, destFilePath):                             *)
(* log, unlink, exit unless watching.  A failure of fs.unlinkSync is       *)
(* caught and ignored.  It sets log, the file and the exit state.          *)
(***************************************************************************)
writeError(prefix, destFilePath) ==
  /\ log' = Append(log, IF endsWith(prefix, <<" ">>) THEN prefix
                        ELSE prefix \o <<" ">>)
  /\ LET unlinked == destFilePath = Dest /\ fileExists /\ ~unlinkDenied
     IN /\ fileExists' = IF unlinked THEN FALSE ELSE fileExists
        /\ linked' = IF unlinked THEN [j \in Builds |-> FALSE] ELSE linked
        /\ fileText' = IF unlinked THEN Null ELSE fileText
  /\ UNCHANGED <<fileIsDir, unlinkDenied>>
  /\ alive' = isWatching
  /\ exitCode' = IF isWatching THEN exitCode ELSE 1
  /\ UNCHANGED uncaught

(***************************************************************************)
(* bundle(src, dest, argv) up to the start of bundling: the promise is     *)
(* created and createBundleStream(dest) opens the write stream, the open   *)
(* being handed to the thread pool.  Nothing serialises the calls: a call  *)
(* can come while promise jobs of earlier calls are still queued.          *)
(***************************************************************************)
createBundleStream(i) ==
  /\ stream' = [stream EXCEPT ![i] = "opening"]
  /\ pool' = [pool EXCEPT ![i] = "open-pending"]
  /\ UNCHANGED <<endCalls, endData, cbDone, endErr>>

bundle ==
  /\ alive
  /\ builds < MaxBuilds
  /\ builds' = builds + 1
  /\ promise' = [promise EXCEPT ![builds'] = "pending"]
  /\ createBundleStream(builds')
  /\ pc' = [pc EXCEPT ![builds'] = "bundling"]
  /\ UNCHANGED <<isWatching, argv, produced, queue, fileVars, exitVars, log,
                 funVars>>

(***************************************************************************)
(* closeBundleStream(stream, bundleString, options): an async function.    *)
(* postProcess runs first; when it throws, stream.end is not reached and   *)
(* the returned promise is rejected, else stream.end is called and the     *)
(* returned promise is fulfilled at once.  Either way the job of .then is  *)
(* queued.  A chunk given to an open stream goes to the thread pool; on a  *)
(* stream still opening it waits.                                          *)
(***************************************************************************)
closeBundleStream(i, bundleString, options) ==
  LET text == postProcess(bundleString, options)
  IN IF text = Thrown
     THEN /\ pc' = [pc EXCEPT ![i] = "rejected"]
          /\ queue' = Append(queue, i)
          /\ UNCHANGED streamVars
     ELSE /\ endCalls' = [endCalls EXCEPT ![i] = @ + 1]
          /\ endData' = [endData EXCEPT ![i] = text]
          /\ pool' = IF stream[i] = "open" /\ text.type = "string"
                     THEN [pool EXCEPT ![i] = "write-pending"] ELSE pool
          /\ pc' = [pc EXCEPT ![i] = "then"]
          /\ queue' = Append(queue, i)
          /\ endErr' = [endErr EXCEPT ![i] = (stream[i] = "failed")]
          /\ UNCHANGED <<stream, cbDone>>

(***************************************************************************)
(* The callback given to browserify(...).bundle.                           *)
(***************************************************************************)
bundleCallback(i) ==
  /\ alive
  /\ pc[i] = "bundling"
  /\ \E r \in ProducerResults :
       /\ produced' = [produced EXCEPT ![i] = r]
       /\ IF r.err
          THEN /\ writeError(BuildErrorPrefix, NoPath)
               /\ IF isWatching
                  THEN closeBundleStream(i, Null, argv)
                  ELSE /\ pc' = [pc EXCEPT ![i] = "exited"]
                       /\ UNCHANGED <<queue, streamVars>>
          ELSE /\ UNCHANGED <<fileVars, exitVars, log>>
               /\ closeBundleStream(i, r.bundle, argv)
  /\ UNCHANGED <<isWatching, builds, argv, promise, funVars>>

\* the oldest promise job is that of invocation i: jobs run in the order
\* they were queued
JobTurn(i) ==
  /\ alive
  /\ queue # <<>> /\ Head(queue) = i

\* .then(() => { if (bundle) console.log(...); resolve(true) })
thenCallback(i) ==
  /\ JobTurn(i)
  /\ pc[i] = "then"
  /\ queue' = Tail(queue)
  /\ log' = IF produced[i].bundle.type = "string"
            THEN Append(log, BuildSuccess)
            ELSE log
  /\ promise' = [promise EXCEPT ![i] = "resolved"]
  /\ pc' = [pc EXCEPT ![i] = "done"]
  /\ UNCHANGED <<isWatching, builds, argv, produced, streamVars, fileVars,
                 exitVars, funVars>>

\* .then(...) on the rejected promise of closeBundleStream: its job calls
\* nothing and rejects the promise .catch waits on, whose job is queued
thenRejected(i) ==
  /\ JobTurn(i)
  /\ pc[i] = "rejected"
  /\ pc' = [pc EXCEPT ![i] = "catch"]
  /\ queue' = Append(Tail(queue), i)
  /\ UNCHANGED <<isWatching, builds, argv, produced, promise, streamVars,
                 fileVars, exitVars, log, funVars>>

\* the catch handler calling writeError without the destination path
catchCallbackNoDest(i) ==
  /\ JobTurn(i)
  /\ pc[i] = "catch"
  /\ queue' = Tail(queue)
  /\ writeError(WriteErrorPrefix, NoPath)
  /\ pc' = [pc EXCEPT ![i] = IF isWatching THEN "done" ELSE "exited"]
  /\ UNCHANGED <<isWatching, builds, argv, produced, promise, streamVars,
                 funVars>>

\* .catch((err) => writeError('Write error:', err.message, err, dest))
catchCallback(i) ==
  /\ JobTurn(i)
  /\ pc[i] = "catch"
  /\ queue' = Tail(queue)
  /\ writeError(WriteErrorPrefix, Dest)
  /\ pc' = [pc EXCEPT ![i] = IF isWatching THEN "done" ELSE "exited"]
  /\ UNCHANGED <<isWatching, builds, argv, produced, promise, streamVars,
                 funVars>>

(***************************************************************************)
(* The thread pool: it opens and writes the file at any moment after the   *)
(* request, the stream's events being delivered later by the event loop.   *)
(***************************************************************************)
\* fs.open(dest, 'w') succeeds: dest is truncated, or created when absent
poolOpen(i) ==
  /\ alive
  /\ pool[i] = "open-pending"
  /\ ~fileIsDir
  /\ pool' = [pool EXCEPT ![i] = "open-ok"]
  /\ fileExists' = TRUE
  /\ linked' = [linked EXCEPT ![i] = TRUE]
  /\ fileText' = Str(<<>>)
  /\ UNCHANGED <<procVars, stream, endCalls, endData, cbDone, endErr, fileIsDir,
                 unlinkDenied, exitVars, log, funVars>>

\* fs.open fails (dest is a directory or immutable, no permission)
poolOpenFail(i) ==
  /\ alive
  /\ pool[i] = "open-pending"
  /\ pool' = [pool EXCEPT ![i] = "open-failed"]
  /\ UNCHANGED <<procVars, stream, endCalls, endData, cbDone, endErr, fileVars,
                 exitVars, log, funVars>>

\* fs.write of the chunk at offset 0 of the open file; an unlinked file is
\* written too, but no longer seen at dest
poolWrite(i) ==
  /\ alive
  /\ pool[i] = "write-pending"
  /\ pool' = [pool EXCEPT ![i] = "write-ok"]
  /\ fileText' = IF linked[i]
                 THEN Str(endData[i].chars
                            \o SubSeq(fileText.chars, Len(endData[i].chars) + 1,
                                      Len(fileText.chars)))
                 ELSE fileText
  /\ UNCHANGED <<procVars, stream, endCalls, endData, cbDone, endErr,
                 fileExists,
                 fileIsDir, unlinkDenied, linked, exitVars, log, funVars>>

\* fs.write fails
poolWriteFail(i) ==
  /\ alive
  /\ pool[i] = "write-pending"
  /\ pool' = [pool EXCEPT ![i] = "write-failed"]
  /\ UNCHANGED <<procVars, stream, endCalls, endData, cbDone, endErr, fileVars,
                 exitVars, log, funVars>>

(***************************************************************************)
(* Events of the write stream.                                             *)
(***************************************************************************)
\* the 'open' event; a chunk that waited for it goes to the thread pool
streamOpen(i) ==
  /\ EventLoopTurn
  /\ stream[i] = "opening"
  /\ pool[i] = "open-ok"
  /\ stream' = [stream EXCEPT ![i] = "open"]
  /\ pool' = [pool EXCEPT ![i] =
                IF endCalls[i] = 1 /\ endData[i].type = "string"
                THEN "write-pending" ELSE "idle"]
  /\ UNCHANGED <<procVars, endCalls, endData, cbDone, endErr, fileVars, exitVars,
                 log, funVars>>

\* stream.on('error', ...): the open or the write failed.  The stream is not
\* destroyed (autoClose: false): after a failed open a callback given to
\* stream.end earlier is never called; a failed write fails that callback too
streamError(i) ==
  /\ EventLoopTurn
  /\ \/ stream[i] = "opening" /\ pool[i] = "open-failed"
     \/ stream[i] = "open" /\ pool[i] = "write-failed"
  /\ stream' = [stream EXCEPT ![i] = "failed"]
  /\ pool' = [pool EXCEPT ![i] = "idle"]
  /\ endErr' = [endErr EXCEPT ![i] = (stream[i] = "open" /\ endCalls[i] = 1)]
  /\ writeError(WriteErrorPrefix, Dest)
  /\ pc' = IF isWatching THEN pc ELSE [pc EXCEPT ![i] = "exited"]
  /\ UNCHANGED <<isWatching, builds, argv, produced, promise, queue, endCalls,
                 endData, cbDone, funVars>>

\* the stream finished: (err) => {} is called with no err
streamFinish(i) ==
  /\ EventLoopTurn \/ NextTickDue(i)
  /\ stream[i] = "open"
  /\ endCalls[i] = 1
  /\ endData[i].type # "string" \/ pool[i] = "write-ok"
  /\ stream' = [stream EXCEPT ![i] = "finished"]
  /\ pool' = [pool EXCEPT ![i] = "idle"]
  /\ cbDone' = [cbDone EXCEPT ![i] = TRUE]
  /\ UNCHANGED <<procVars, endCalls, endData, endErr, fileVars, exitVars,
                 log, funVars>>

\* (err) => { if (err) throw err }: thrown from a stream callback, outside
\* every promise, so an uncaught exception.  A failed write hands the error
\* to this callback and to the 'error' event; either can come first
endCallbackError(i) ==
  /\ EventLoopTurn \/ NextTickDue(i)
  /\ endCalls[i] = 1
  /\ ~cbDone[i]
  /\ \/ endErr[i]
     \/ stream[i] = "open" /\ pool[i] = "write-failed"
  /\ cbDone' = [cbDone EXCEPT ![i] = TRUE]
  /\ alive' = FALSE
  /\ exitCode' = 1
  /\ uncaught' = TRUE
  /\ pc' = [pc EXCEPT ![i] = "exited"]
  /\ UNCHANGED <<isWatching, builds, argv, produced, promise, queue, stream,
                 pool, endCalls, endData, endErr, fileVars, log, funVars>>

Next ==
  \/ bundle
  \/ \E i \in Builds : bundleCallback(i)
  \/ \E i \in Builds : thenCallback(i)
  \/ \E i \in Builds : thenRejected(i)
  \/ \E i \in Builds : catchCallback(i)
  \/ \E i \in Builds : poolOpen(i)
  \/ \E i \in Builds : poolOpenFail(i)
  \/ \E i \in Builds : poolWrite(i)
  \/ \E i \in Builds : poolWriteFail(i)
  \/ \E i \in Builds : streamOpen(i)
  \/ \E i \in Builds : streamError(i)
  \/ \E i \in Builds : streamFinish(i)
  \/ \E i \in Builds : endCallbackError(i)

Spec == Init /\ [][Next]_vars

(***************************************************************************)
(* Runs of single rewrites of postProcess on drawn inputs.  The build      *)
(* state stays as constructed.                                             *)
(***************************************************************************)
MainIdle ==
  /\ isWatching = FALSE
  /\ argv = [stripComments |-> FALSE]
  /\ NoCalls
  /\ fileExists = FALSE /\ fileIsDir = FALSE /\ unlinkDenied = FALSE
  /\ linked = [i \in Builds |-> FALSE] /\ fileText = Null

mainVars == <<procVars, streamVars, fileVars, exitVars, log>>

FunInit(texts) ==
  /\ MainIdle
  /\ fpc = "in"
  /\ fin \in texts
  /\ fopt \in {[stripComments |-> b] : b \in BOOLEAN}
  /\ fmid = Null
  /\ fout = Null

\* rule 4 applied to a text, then to its own result
applyRule4 ==
  /\ fpc = "in"
  /\ fmid' = Str(Rule4(fin))
  /\ fout' = fmid'
  /\ fpc' = "once"
  /\ UNCHANGED <<mainVars, fin, fopt>>

applyRule4Again ==
  /\ fpc = "once"
  /\ fout' = Str(Rule4(fmid.chars))
  /\ fpc' = "twice"
  /\ UNCHANGED <<mainVars, fin, fopt, fmid>>

InitRule4 == FunInit(Rule4Texts) /\ fopt.stripComments = FALSE
NextRule4 == applyRule4 \/ applyRule4Again
SpecRule4 == InitRule4 /\ [][NextRule4]_vars

\* the wrap step applied to a non-empty post-substitution text
applyWrap ==
  /\ fpc = "in"
  /\ fout' = Str(Wrap(fin))
  /\ fpc' = "wrapped"
  /\ UNCHANGED <<mainVars, fin, fopt, fmid>>

InitWrap == FunInit(WrapTexts) /\ fopt.stripComments = FALSE
NextWrap == applyWrap
SpecWrap == InitWrap /\ [][NextWrap]_vars

\* the stdlib patch applied to a text
applyStdlibPatch ==
  /\ fpc = "in"
  /\ fout' = Str(StdlibPatch(fin))
  /\ fpc' = "patched"
  /\ UNCHANGED <<mainVars, fin, fopt, fmid>>

InitStdlib == FunInit(StdlibTexts) /\ fopt.stripComments = FALSE
NextStdlib == applyStdlibPatch
SpecStdlib == InitStdlib /\ [][NextStdlib]_vars

\* postProcess applied to a bundle text
applyPostProcess ==
  /\ fpc = "in"
  /\ fout' = postProcess(Str(fin), fopt)
  /\ fpc' = "processed"
  /\ UNCHANGED <<mainVars, fin, fopt, fmid>>

InitPipe == FunInit(PipeTexts)
NextPipe == applyPostProcess
SpecPipe == InitPipe /\ [][NextPipe]_vars

(***************************************************************************)
(***************************************************************************)
(* Properties of bundle().                                                 *)
(***************************************************************************)
BuildErrorEntry == BuildErrorPrefix \o <<" ">>
WriteErrorEntry == WriteErrorPrefix \o <<" ">>

Logged(text) == \E k \in 1..Len(log) : log[k] = text

\* the bundler callback of invocation i has reported a build error
BuildErrorHandled(i) ==
  produced[i].err /\ pc[i] \in {"then", "done", "exited"}

\* C1: once the bundler callback has handled a build error (logged with the
\* 'Build error: ' prefix), no file exists at dest, watching or not, where
\* dest can be unlinked.
C1_DestRemovedOnBuildError ==
  \A i \in Builds :
    (BuildErrorHandled(i) /\ Logged(BuildErrorEntry) /\ ~unlinkDenied)
      => ~fileExists

\* the bundle texts that are empty after trim, comment stripping (when asked
\* for) and rules 1-5
EmptyTexts ==
  [b \in BOOLEAN |->
     {t \in BundleTexts :
        LET t0 == trim(t)
            t1 == IF b THEN stripComments(t0) ELSE t0
        IN Rule5(Rule4(Rule3(Rule2(Rule1(t1))))) = <<>>}]

\* the bundler handed invocation i such a text
EmptyBundle(i) ==
  /\ produced[i].bundle.type = "string"
  /\ produced[i].bundle.chars \in EmptyTexts[argv.stripComments]

\* a write error of invocation i has been handled: a stream 'error' event or
\* the empty-bundle failure
WriteErrorHandled(i) ==
  \/ stream[i] = "failed"
  \/ EmptyBundle(i) /\ pc[i] \in {"done", "exited"}

\* C2: once the reactions of an invocation have run and the process lives,
\* its promise is rejected if and only if a write error occurred; it is
\* never rejected on a build error and never left pending on a write error.
C2_RejectsIffWriteError ==
  \A i \in Builds :
    (alive /\ pc[i] = "done") => (promise[i] = "rejected" <=> WriteErrorHandled(i))

\* C3: when the promise of a successful build is resolved, the stream has
\* finished writing the postprocessed text to dest.
C3_ResolvedOnlyAfterWritten ==
  \A i \in Builds :
    (promise[i] = "resolved" /\ produced[i].bundle.type = "string")
      => stream[i] = "finished"

\* a failure of a build attempt has been reported or thrown
FailureReported ==
  \/ uncaught
  \/ Logged(BuildErrorEntry) \/ Logged(WriteErrorEntry)

\* C4: after a failure the process is terminated if and only if the watch
\* flag is not set; with the flag set no failure terminates it.
C4_ExitIffNotWatching ==
  /\ ~alive => (~isWatching /\ exitCode = 1)
  /\ FailureReported => (alive <=> isWatching)

\* an empty bundle is never built: postProcess throws, stream.end is not
\* reached and the promise is never resolved
EmptyBundleNeverBuilt ==
  \A i \in Builds :
    EmptyBundle(i) =>
      /\ postProcess(produced[i].bundle, argv) = Thrown
      /\ pc[i] \in {"rejected", "catch", "done", "exited"}
      /\ endCalls[i] = 0
      /\ promise[i] = "pending"

\* no step of an invocation with an empty bundle logs 'Build success'
EmptyBundleNoSuccess(i) ==
  (EmptyBundle(i) /\ pc'[i] # pc[i]) => log' # Append(log, BuildSuccess)

\* the handler of the empty bundle of invocation i runs in this step
EmptyBundleHandled(i) ==
  EmptyBundle(i) /\ pc[i] = "catch" /\ pc'[i] # "catch"

\* it logs like a write error and leaves the process running exactly when
\* the watch flag is set
HandledAsWriteError ==
  /\ log' = Append(log, WriteErrorEntry)
  /\ alive' = isWatching
  /\ exitCode' = IF isWatching THEN exitCode ELSE 1

\* C5 as stated: an empty bundle makes postProcess throw and is handled as a
\* write error: for that invocation the promise is never resolved and 'Build
\* success' never logged, and the handler logs with the 'Write error: '
\* prefix, leaves no file at dest and leaves the process running exactly
\* when the watch flag is set.
C5_EmptyBundleIsWriteError ==
  /\ []EmptyBundleNeverBuilt
  /\ [][\A i \in Builds :
          /\ EmptyBundleNoSuccess(i)
          /\ EmptyBundleHandled(i) => (HandledAsWriteError /\ ~fileExists')]_vars

\* a file comes to exist at dest only by the open of a write stream
DestCreatedOnlyByOpen ==
  (~fileExists /\ fileExists') =>
    \E j \in Builds : pool[j] = "open-pending" /\ pool'[j] = "open-ok"

\* C5 amended: as C5, the unlink of dest being best-effort: when the handler
\* has run there is no file at dest unless fs.unlinkSync fails, and then dest
\* is as it was; afterwards a file comes to dest only by the open of a write
\* stream, one still pending or one of another invocation.
C5_EmptyBundleUnlinkBestEffort ==
  /\ []EmptyBundleNeverBuilt
  /\ [][\A i \in Builds :
          /\ EmptyBundleNoSuccess(i)
          /\ EmptyBundleHandled(i) =>
               /\ HandledAsWriteError
               /\ IF unlinkDenied THEN UNCHANGED fileVars ELSE ~fileExists']_vars
  /\ [][DestCreatedOnlyByOpen]_vars

\* C5 witness: in watch mode an empty bundle has been handled after its
\* stream opened dest: write error logged, dest unlinked, promise pending,
\* process alive
C5_Witness ==
  \E i \in Builds :
    /\ EmptyBundle(i) /\ pc[i] = "done" /\ isWatching /\ alive
    /\ log # <<>> /\ log[Len(log)] = WriteErrorEntry
    /\ ~unlinkDenied /\ ~fileExists /\ promise[i] = "pending"
    /\ stream[i] = "open"

\* C10: when the reactions of an invocation have run and the process lives,
\* stream.end has been called exactly once on the stream it opened.
C10_StreamEndedOnce ==
  \A i \in Builds : (alive /\ pc[i] = "done") => endCalls[i] = 1

(***************************************************************************)
(* Properties of postProcess.                                              *)
(***************************************************************************)
\* C6: the wrap step drops one trailing ';' and then prefixes '() => ' when
\* the text starts with '(' and ends with ')', else encloses it in
\* '() => (\n' and '\n)'; 'doStuff();' and '(a,b)' give the spec's results.
C6_WrapForm ==
  fpc = "wrapped" =>
    LET n == Len(fin)
        u == IF fin[n] = ";" THEN [i \in 1..(n - 1) |-> fin[i]] ELSE fin
        parens == Len(u) > 0 /\ u[1] = "(" /\ u[Len(u)] = ")"
    IN /\ fout.type = "string"
       /\ fout.chars =
            IF parens THEN <<"(",")"," ","=",">"," ">> \o u
            ELSE <<"(",")"," ","=",">"," ","(","\n">> \o u \o <<"\n",")">>
       /\ fin = <<"d","o","S","t","u","f","f","(",")",";">>
            => fout.chars = <<"(",")"," ","=",">"," ","(","\n",
                              "d","o","S","t","u","f","f","(",")","\n",")">>
       /\ fin = <<"(","a",",","b",")">>
            => fout.chars = <<"(",")"," ","=",">"," ","(","a",",","b",")">>

\* C6 witness: a parenthesised text ending in ';' has been wrapped
C6_Witness ==
  /\ fpc = "wrapped"
  /\ fin = <<"(","a",",","b",")",";">>
  /\ fout.chars = <<"(",")"," ","=",">"," ","(","a",",","b",")">>

\* C7: the stdlib patch deletes exactly the occurrences of the literal
\* 'stdlib.' and leaves every other text unchanged.
C7_StdlibLiteralOnly ==
  fpc = "patched" =>
    fout.chars = ReplaceAll(fin, <<"s","t","d","l","i","b",".">>, <<>>)

\* C8: applying rule 4 to the result of rule 4 changes nothing.
C8_Rule4Idempotent ==
  fpc = "twice" => fout = fmid

\* C8 witness: the overlapping text '<!-->' went through rule 4 twice
C8_Witness ==
  /\ fpc = "twice"
  /\ fin = <<"<","!","-","-",">">>
  /\ fmid.chars = <<"<"," ","!","-","-"," ",">">>

\* C9: a text returned by postProcess holds neither '<!--' nor '-->'.
C9_NoHtmlCommentDelimiter ==
  (fpc = "processed" /\ fout.type = "string")
    => (~Includes(fout.chars, <<"<","!","-","-">>)
        /\ ~Includes(fout.chars, <<"-","-",">">>))

====
